---- MODULE Spec2Model ----
(***************************************************************************)
(* Tree leaf-extraction engine (tree/leaf_extract.js and its variant).     *)
(*                                                                         *)
(* JSON-like values are records of one uniform shape:                      *)
(*   kind  "undefined" | "null" | "prim" | "arr" | "obj"                   *)
(*   val   the text of a primitive                                         *)
(*   keys  the own keys of an object, in insertion order                   *)
(*   items the items of an array, or the values of an object's keys        *)
(* Internal tree nodes are identified by their position (the sequence of   *)
(* child indexes from the sentinel root), which stands for object identity.*)
(***************************************************************************)
EXTENDS Integers, Sequences, FiniteSets, TLC

VARIABLES
    \* tree/leaf_extract.js: one caller of the library
    variant, input_data, options, callback, op, result,
    \* lib/live_media: the temporary output path of one conversion
    final_path, temp_path, path_op,
    \* utility/ai_adapter: the arguments of one codex invocation
    adapter, cli_args, command_args, codex_op,
    \* utility/text_prompt_batch_runner.js: one run of the batch CLI
    argv, pending_jobs, batch_pc, index, job_state, attempt, last_error,
    processed_count, failed_count, total_attempt_count, retry_attempt_count,
    simulated_count,
    \* tree/leaf_extract_cli.js: the files of a directory and the runs of the CLI
    files, cli_options, input_files, cli_pc, runs, cli_counts, processed_inputs

leaf_extract_vars == <<variant, input_data, options, callback, op, result>>

path_vars == <<final_path, temp_path, path_op>>

codex_vars == <<adapter, cli_args, command_args, codex_op>>

batch_vars ==
    <<argv, pending_jobs, batch_pc, index, job_state, attempt, last_error,
      processed_count, failed_count, total_attempt_count, retry_attempt_count,
      simulated_count>>

cli_vars == <<files, cli_options, input_files, cli_pc, runs, cli_counts, processed_inputs>>

vars == <<leaf_extract_vars, path_vars, codex_vars, batch_vars, cli_vars>>

\* What a call of the leaf-extraction library leaves alone
outside_leaf_extract == <<path_vars, codex_vars, batch_vars, cli_vars>>

-----------------------------------------------------------------------------
\* Bounds of the model
MaxNodes == 3
MaxLevel == 4

-----------------------------------------------------------------------------
\* JSON-like values

Undefined == [kind |-> "undefined", val |-> "", keys |-> <<>>, items |-> <<>>]

Null == [kind |-> "null", val |-> "", keys |-> <<>>, items |-> <<>>]

Prim(s) == [kind |-> "prim", val |-> s, keys |-> <<>>, items |-> <<>>]

Arr(xs) == [kind |-> "arr", val |-> "", keys |-> <<>>, items |-> xs]

Obj(ks, vs) == [kind |-> "obj", val |-> "", keys |-> ks, items |-> vs]

EmptyObj == Obj(<<>>, <<>>)

IsArray(v) == v.kind = "arr"

\* `x && typeof x === "object"`: arrays and plain objects, not null
IsObjectLike(v) == v.kind \in {"arr", "obj"}

\* `x && typeof x === "object" && !Array.isArray(x)`
IsPlainObject(v) == v.kind = "obj"

\* JavaScript truthiness of a value
Truthy(v) ==
    \/ v.kind \in {"arr", "obj"}
    \/ v.kind = "prim" /\ v.val \notin {"", "false", "0"}

HasKey(o, k) == \E i \in 1..Len(o.keys) : o.keys[i] = k

KeyIndex(o, k) == CHOOSE i \in 1..Len(o.keys) : o.keys[i] = k

\* o[k]
Get(o, k) == IF HasKey(o, k) THEN o.items[KeyIndex(o, k)] ELSE Undefined

RemoveAt(s, i) == SubSeq(s, 1, i - 1) \o SubSeq(s, i + 1, Len(s))

\* delete o[k]
DeleteKey(o, k) ==
    IF HasKey(o, k)
    THEN Obj(RemoveAt(o.keys, KeyIndex(o, k)), RemoveAt(o.items, KeyIndex(o, k)))
    ELSE o

\* o[k] = v : an existing key keeps its place, a new key is appended
SetKey(o, k, v) ==
    IF HasKey(o, k)
    THEN Obj(o.keys, [o.items EXCEPT ![KeyIndex(o, k)] = v])
    ELSE Obj(Append(o.keys, k), Append(o.items, v))

RECURSIVE Concat(_)
Concat(ss) == IF ss = <<>> THEN <<>> ELSE Head(ss) \o Concat(Tail(ss))

\* Deep equality of two values, the order of an object's keys ignored
RECURSIVE JsonEq(_, _)
JsonEq(a, b) ==
    /\ a.kind = b.kind
    /\ a.val = b.val
    /\ Len(a.items) = Len(b.items)
    /\ IF a.kind = "obj"
       THEN /\ {a.keys[i] : i \in 1..Len(a.keys)} = {b.keys[i] : i \in 1..Len(b.keys)}
            /\ \A i \in 1..Len(a.keys) : JsonEq(a.items[i], Get(b, a.keys[i]))
       ELSE \A i \in 1..Len(a.items) : JsonEq(a.items[i], b.items[i])

-----------------------------------------------------------------------------
\* Inputs the calls are made on

\* A leaf written as an object
Leaf(s) == Obj(<<"value">>, <<Prim(s)>>)

\* An object with the items `kids` under its children key k
Branch(s, k, kids) == Obj(<<"value", k>>, <<Prim(s), Arr(kids)>>)

LeafValues == {Prim("a"), Prim("b"), Leaf("c")}

\* Forests (sequences of trees) of exactly n nodes whose branches keep their
\* children under the key k
RECURSIVE ForestsOfSize(_, _)
ForestsOfSize(k, n) ==
    IF n = 0 THEN {<<>>}
    ELSE UNION {
           { <<t>> \o f :
               t \in (IF j = 1 THEN LeafValues
                      ELSE {Branch("n", k, g) : g \in ForestsOfSize(k, j - 1)}),
               f \in ForestsOfSize(k, n - j) } : j \in 1..n }

ChildKeys == {"children", "r_children"}

\* Every single tree and every top-level array of at most MaxNodes nodes
CoreInputs ==
    UNION { UNION { {Arr(f) : f \in ForestsOfSize(k, n)}
                    \cup {f[1] : f \in {g \in ForestsOfSize(k, n) : Len(g) = 1}}
                  : n \in 0..MaxNodes } : k \in ChildKeys }

\* Values at the edge of what the normalizer accepts: null, an array nested in
\* an array, and objects whose children field is empty or is not an array
EdgeValues(k) ==
    { Null,
      Arr(<<Prim("a")>>),
      Obj(<<"value", k>>, <<Prim("c"), Arr(<<>>)>>),
      Obj(<<"value", k>>, <<Prim("c"), Prim("a")>>),
      Obj(<<"value", k>>, <<Prim("c"), Null>>),
      Obj(<<"value", k>>, <<Prim("c"), Branch("n", k, <<Prim("a"), Prim("b")>>)>>) }

EdgeContexts(e, k) ==
    { e,
      Arr(<<e>>),
      Arr(<<e, Prim("b")>>),
      Arr(<<Prim("b"), e>>),
      Branch("n", k, <<e>>),
      Branch("n", k, <<e, Prim("b")>>),
      Arr(<<Branch("n", k, <<Prim("b"), e>>)>>) }

EdgeInputs ==
    UNION { UNION { EdgeContexts(e, k) : e \in EdgeValues(k) } : k \in ChildKeys }

\* The nested example of the documentation
NestedExample ==
    Arr(<<Branch("1", "children",
            <<Branch("1.1", "children", <<Leaf("1.1.1"), Leaf("1.1.2")>>)>>)>>)

\* input_tree of test/tree_leaf_extract.test.js
TestInputTree ==
    Arr(<<Branch("1", "children",
            <<Branch("1.1", "children", <<Leaf("1.1.1"), Leaf("1.1.2")>>),
              Branch("1.2", "children", <<Leaf("1.2.1"), Leaf("1.2.2")>>)>>),
          Branch("2", "children", <<Leaf("2.1"), Leaf("2.2")>>)>>)

PrimitiveExample == Arr(<<Prim("a"), Prim("b"), Prim("c")>>)

\* A tree whose node x lies between a selected ancestor and a selected
\* descendant at level 2: y has the leaf l and x, x has z, z has the leaf w
SkippedAncestorTree ==
    Branch("y", "children",
           <<Leaf("l"),
             Branch("x", "children", <<Branch("z", "children", <<Leaf("w")>>)>>)>>)

\* Two leaves with equal values below one parent
TwinLeavesTree == Branch("p", "children", <<Leaf("t"), Leaf("t")>>)

\* A tree that keeps its children under r_children and whose one child keeps
\* its own under children
MixedKeysTree ==
    Branch("n", "r_children", <<Branch("m", "children", <<Prim("a"), Prim("b")>>)>>)

ExampleInputs ==
    { NestedExample, TestInputTree, PrimitiveExample,
      MixedKeysTree, Arr(<<MixedKeysTree>>),
      SkippedAncestorTree, Arr(<<SkippedAncestorTree>>),
      Arr(<<Branch("q", "children", <<Branch("z", "children", <<Leaf("w")>>)>>),
            SkippedAncestorTree>>),
      TwinLeavesTree, Arr(<<TwinLeavesTree, Leaf("t")>>) }

Inputs == {Undefined} \cup CoreInputs \cup EdgeInputs \cup ExampleInputs

-----------------------------------------------------------------------------
\* Options of a call

DEFAULT_CHILDREN_KEY == "children"

DEFAULT_CHILDREN_CANDIDATES == <<"r_children", "children", "nodes", "items">>

DEFAULT_VALUE_KEY == "value"

DEFAULT_ROOT_LABEL == "__leaf_extract_root__"

\* String.prototype.trim on the option strings the model uses
Trim(s) ==
    CASE s = "  " -> ""
      [] s = " r_children " -> "r_children"
      [] OTHER -> s

\* `typeof x === "string" && x.trim()`
IsNonBlankString(v) == v.kind = "prim" /\ Trim(v.val) # ""

normalize_options(opts) ==
    [ children_key |-> IF IsNonBlankString(opts.children_key)
                       THEN Trim(opts.children_key.val)
                       ELSE DEFAULT_CHILDREN_KEY,
      value_key    |-> IF IsNonBlankString(opts.value_key)
                       THEN Trim(opts.value_key.val)
                       ELSE DEFAULT_VALUE_KEY,
      root_label   |-> IF IsNonBlankString(opts.root_label)
                       THEN Trim(opts.root_label.val)
                       ELSE DEFAULT_ROOT_LABEL ]

\* The values detect_children_key queues for an object that has no candidate key
QueuedValues(node) ==
    Concat([i \in 1..Len(node.items) |->
              IF IsArray(node.items[i])
              THEN SelectSeq(node.items[i].items, IsObjectLike)
              ELSE IF IsObjectLike(node.items[i]) THEN <<node.items[i]>>
              ELSE <<>>])

\* The first candidate key of an object whose value is an array ("" when none)
FirstCandidate(node) ==
    LET hits == SelectSeq(DEFAULT_CHILDREN_CANDIDATES,
                          LAMBDA key : IsArray(Get(node, key)))
    IN IF hits = <<>> THEN "" ELSE hits[1]

\* The while loop of detect_children_key; "" stands for null
RECURSIVE detect_loop(_)
detect_loop(queue) ==
    IF queue = <<>> THEN ""
    ELSE LET node == Head(queue)
             rest == Tail(queue)
         IN IF ~IsObjectLike(node) THEN detect_loop(rest)
            ELSE IF IsArray(node) THEN detect_loop(rest \o node.items)
            ELSE IF FirstCandidate(node) # "" THEN FirstCandidate(node)
            ELSE detect_loop(rest \o QueuedValues(node))

detect_children_key(data) ==
    detect_loop(IF IsArray(data) THEN data.items
                ELSE IF data # Undefined THEN <<data>>
                ELSE <<>>)

\* resolve_options_with_data that lets the detected key override an explicit
\* children_key
resolve_options_with_data_always_detecting(data, opts) ==
    IF detect_children_key(data) # ""
    THEN [normalize_options(opts) EXCEPT !.children_key = detect_children_key(data)]
    ELSE normalize_options(opts)

resolve_options_with_data(data, opts) ==
    IF IsNonBlankString(opts.children_key)
    THEN normalize_options(opts)
    ELSE IF detect_children_key(data) # ""
         THEN [normalize_options(opts) EXCEPT !.children_key = detect_children_key(data)]
         ELSE normalize_options(opts)

\* The two leaf_extract files differ in how build_tree_model_from_data
\* resolves its options
WithDetection == "part_006"
WithoutDetection == "part_013"
Variants == {WithDetection, WithoutDetection}

resolve_options(v, data, opts) ==
    IF v = WithDetection
    THEN resolve_options_with_data(data, opts)
    ELSE normalize_options(opts)

-----------------------------------------------------------------------------
\* Tree Normalizer

RECURSIVE normalize_node(_, _)

normalize_forest(raw_data, nopts) ==
    IF raw_data = Undefined THEN <<>>
    ELSE IF IsArray(raw_data)
         THEN [i \in 1..Len(raw_data.items) |-> normalize_node(raw_data.items[i], nopts)]
         ELSE <<normalize_node(raw_data, nopts)>>

\* normalize_node that gives the primitive node of a nested array the items
\* of the array as children
normalize_node_with_array_children(raw_node, nopts) ==
    IF IsPlainObject(raw_node)
    THEN [ payload      |-> DeleteKey(raw_node, nopts.children_key),
           children     |-> normalize_forest(Get(raw_node, nopts.children_key), nopts),
           is_primitive |-> FALSE,
           is_root      |-> FALSE,
           raw_value    |-> Undefined ]
    ELSE [ payload      |-> EmptyObj,
           children     |-> IF IsArray(raw_node) THEN normalize_forest(raw_node, nopts)
                            ELSE <<>>,
           is_primitive |-> TRUE,
           is_root      |-> FALSE,
           raw_value    |-> raw_node ]

normalize_node(raw_node, nopts) ==
    IF IsPlainObject(raw_node)
    THEN [ payload      |-> DeleteKey(raw_node, nopts.children_key),
           children     |-> normalize_forest(Get(raw_node, nopts.children_key), nopts),
           is_primitive |-> FALSE,
           is_root      |-> FALSE,
           raw_value    |-> Undefined ]
    ELSE [ payload      |-> EmptyObj,
           children     |-> <<>>,
           is_primitive |-> TRUE,
           is_root      |-> FALSE,
           raw_value    |-> raw_node ]

ROOT_FLAG == "__leaf_extract_root"

\* The model of the sentinel root and what build_tree_model_from_data returns.
\* Tree_model.parse makes one Node per model with the same children, so the
\* parsed tree is the model itself and a Node is named by its position.
build_tree_model_from_data(v, data, opts) ==
    LET nopts == resolve_options(v, data, opts)
    IN [ root_node |->
           [ payload      |-> SetKey(SetKey(EmptyObj, nopts.value_key, Prim(nopts.root_label)),
                                     ROOT_FLAG, Prim("true")),
             children     |-> normalize_forest(data, nopts),
             is_primitive |-> FALSE,
             is_root      |-> TRUE,
             raw_value    |-> Undefined ],
         input_is_array |-> IsArray(data),
         normalized_options |-> nopts ]

\* normalize_node deleting the children key from the node it was handed
raw_node_after_delete_in_place(raw_node, nopts) ==
    IF IsPlainObject(raw_node) THEN DeleteKey(raw_node, nopts.children_key) ELSE raw_node

\* The caller's raw node once normalize_node has returned: the children key
\* is deleted from the spread copy, the node handed in keeps all its keys
raw_node_after(raw_node, nopts) == raw_node

\* The caller's input_data once a call that built the tree has returned
input_after_call(v, data, opts) ==
    LET nopts == resolve_options(v, data, opts)
    IN IF IsArray(data)
       THEN Arr([i \in 1..Len(data.items) |-> raw_node_after(data.items[i], nopts)])
       ELSE IF data = Undefined THEN data ELSE raw_node_after(data, nopts)

clone_payload(payload) == payload

get_node_payload(node_model) ==
    IF node_model.is_primitive THEN node_model.raw_value
    ELSE clone_payload(node_model.payload)

-----------------------------------------------------------------------------
\* Nodes of the parsed tree (tree-model), named by position

\* The node at position p below root
RECURSIVE NodeAt(_, _)
NodeAt(root, p) ==
    IF p = <<>> THEN root ELSE NodeAt(root.children[Head(p)], Tail(p))

\* node.getPath(): the nodes from the root down to the node
GetPath(p) == [i \in 1..(Len(p) + 1) |-> SubSeq(p, 1, i - 1)]

\* `node.model.payload.__leaf_extract_root`
HasRootFlag(node_model) == Truthy(Get(node_model.payload, ROOT_FLAG))

\* root.all({strategy: "post"}): every position, children before their parent
RECURSIVE WalkPost(_, _)
WalkPost(node, p) ==
    Concat([i \in 1..Len(node.children) |-> WalkPost(node.children[i], Append(p, i))])
    \o <<p>>

\* root.all({strategy: "pre"}): every position, a parent before its children
RECURSIVE WalkPre(_, _)
WalkPre(node, p) ==
    <<p>> \o
    Concat([i \in 1..Len(node.children) |-> WalkPre(node.children[i], Append(p, i))])

-----------------------------------------------------------------------------
\* Leaf/Ancestor Selector

get_leaf_nodes(root_node) ==
    SelectSeq(WalkPost(root_node, <<>>),
              LAMBDA p : /\ ~HasRootFlag(NodeAt(root_node, p))
                         /\ NodeAt(root_node, p).children = <<>>)

\* slice(0, n) in place of slice(-n): the nodes nearest the root
SliceFirst(s, n) == SubSeq(s, 1, IF Len(s) > n THEN n ELSE Len(s))

\* slice(-n) that yields nothing for a path shorter than n
SliceLastStrict(s, n) ==
    IF Len(s) >= n THEN SubSeq(s, Len(s) - n + 1, Len(s)) ELSE <<>>

\* Array.prototype.slice(-n) for n >= 1
SliceLast(s, n) == SubSeq(s, IF Len(s) > n THEN Len(s) - n + 1 ELSE 1, Len(s))

\* The path of a leaf with the sentinel left in
PathNodes_with_sentinel(root_node, leaf) == GetPath(leaf)

\* The path of a leaf without the nodes that carry the root flag
PathNodes(root_node, leaf) ==
    SelectSeq(GetPath(leaf), LAMBDA p : ~HasRootFlag(NodeAt(root_node, p)))

\* collect_selected_nodes with a set keyed by the value of a node: of the
\* nodes with one payload/raw value only the leftmost is kept
collect_selected_nodes_by_value(root_node, leaf_nodes, level) ==
    LET by_identity ==
            UNION { { SliceLast(PathNodes(root_node, leaf_nodes[i]), level)[j] :
                        j \in 1..Len(SliceLast(PathNodes(root_node, leaf_nodes[i]), level)) }
                    : i \in 1..Len(leaf_nodes) }
        before(p, q) ==
            /\ p # q
            /\ \/ Len(p) < Len(q)
               \/ Len(p) = Len(q) /\ \E i \in 1..Len(p) :
                     SubSeq(p, 1, i - 1) = SubSeq(q, 1, i - 1) /\ p[i] < q[i]
    IN { p \in by_identity :
           ~\E q \in by_identity :
               /\ before(q, p)
               /\ get_node_payload(NodeAt(root_node, q)) = get_node_payload(NodeAt(root_node, p)) }

collect_selected_nodes(root_node, leaf_nodes, level) ==
    UNION { { SliceLast(PathNodes(root_node, leaf_nodes[i]), level)[j] :
                j \in 1..Len(SliceLast(PathNodes(root_node, leaf_nodes[i]), level)) }
            : i \in 1..Len(leaf_nodes) }

-----------------------------------------------------------------------------
\* Tree Rebuilder

\* build_output_node that wraps every primitive under the value key
build_output_node_wrapping(node_model, child_outputs, nopts) ==
    IF node_model.is_primitive
    THEN IF child_outputs = <<>>
         THEN SetKey(EmptyObj, nopts.value_key, node_model.raw_value)
         ELSE SetKey(SetKey(EmptyObj, nopts.value_key, node_model.raw_value),
                     nopts.children_key, Arr(child_outputs))
    ELSE IF child_outputs # <<>>
         THEN SetKey(clone_payload(node_model.payload), nopts.children_key, Arr(child_outputs))
         ELSE clone_payload(node_model.payload)

\* build_output_node that never attaches the children of a structured node
build_output_node_childless(node_model, child_outputs, nopts) ==
    IF node_model.is_primitive
    THEN IF child_outputs = <<>>
         THEN node_model.raw_value
         ELSE SetKey(SetKey(EmptyObj, nopts.value_key, node_model.raw_value),
                     nopts.children_key, Arr(child_outputs))
    ELSE clone_payload(node_model.payload)

build_output_node(node_model, child_outputs, nopts) ==
    IF node_model.is_primitive
    THEN IF child_outputs = <<>>
         THEN node_model.raw_value
         ELSE SetKey(SetKey(EmptyObj, nopts.value_key, node_model.raw_value),
                     nopts.children_key, Arr(child_outputs))
    ELSE IF child_outputs # <<>>
         THEN SetKey(clone_payload(node_model.payload), nopts.children_key, Arr(child_outputs))
         ELSE clone_payload(node_model.payload)

RECURSIVE collect_output_nodes(_, _, _, _)

\* collect_output_nodes that gathers the children's outputs last child first
collect_output_nodes_reversed(root_node, current, selected_nodes, nopts) ==
    LET node == NodeAt(root_node, current)
        n == Len(node.children)
        collected_children ==
            Concat([i \in 1..n |->
                      collect_output_nodes(root_node, Append(current, n + 1 - i),
                                           selected_nodes, nopts)])
    IN IF current \notin selected_nodes
       THEN collected_children
       ELSE <<build_output_node(node, collected_children, nopts)>>

\* collect_output_nodes that drops what lies below a node that is not selected
collect_output_nodes_pruning(root_node, current, selected_nodes, nopts) ==
    LET node == NodeAt(root_node, current)
        collected_children ==
            Concat([i \in 1..Len(node.children) |->
                      collect_output_nodes(root_node, Append(current, i),
                                           selected_nodes, nopts)])
    IN IF current \notin selected_nodes
       THEN <<>>
       ELSE <<build_output_node(node, collected_children, nopts)>>

collect_output_nodes(root_node, current, selected_nodes, nopts) ==
    LET node == NodeAt(root_node, current)
        collected_children ==
            Concat([i \in 1..Len(node.children) |->
                      collect_output_nodes(root_node, Append(current, i),
                                           selected_nodes, nopts)])
    IN IF current \notin selected_nodes
       THEN collected_children
       ELSE <<build_output_node(node, collected_children, nopts)>>

\* What a call hands back: the value returned or the message of the Error
\* thrown, with a record of the work done (whether the internal tree was built
\* and the positions the callback was invoked on, in order)
NoMeta == [level |-> 0, leaf_count |-> 0, selected_count |-> 0]

Returned(value, meta, calls) ==
    [ output_data |-> value, meta |-> meta, thrown |-> "",
      tree_built |-> TRUE, calls |-> calls ]

Thrown(message, tree_built) ==
    [ output_data |-> Undefined, meta |-> NoMeta, thrown |-> message,
      tree_built |-> tree_built, calls |-> <<>> ]

\* Number(options.level) coerced without the test parsed_level >= 1
coerce_level_without_lower_limit(level_opt) ==
    IF level_opt.given /\ level_opt.finite
    THEN level_opt.tenths \div 10
    ELSE 1

\* Number(options.level) coerced: options.level is absent (Number(undefined)
\* is NaN), given but not finite (NaN, Infinity), or a number given in tenths
coerce_level(level_opt) ==
    IF level_opt.given /\ level_opt.finite /\ level_opt.tenths >= 10
    THEN level_opt.tenths \div 10
    ELSE 1

\* The output forest before the final shape decision
output_forest_of(root_node, selected_nodes, nopts) ==
    Concat([i \in 1..Len(root_node.children) |->
              collect_output_nodes(root_node, <<i>>, selected_nodes, nopts)])

\* The shape decision without the null of an empty forest: output_forest[0]
shape_output_without_null(input_is_array, output_forest) ==
    IF input_is_array THEN Arr(output_forest)
    ELSE IF Len(output_forest) > 0 THEN output_forest[1]
    ELSE Undefined

\* input_is_array ? output_forest : output_forest[0] ?? null
shape_output(input_is_array, output_forest) ==
    IF input_is_array THEN Arr(output_forest)
    ELSE IF Len(output_forest) > 0 THEN output_forest[1]
    ELSE Null

extract_leaf_levels(v, data, opts) ==
    LET level == coerce_level(opts.level)
        built == build_tree_model_from_data(v, data, opts)
        leaf_nodes == get_leaf_nodes(built.root_node)
        selected_nodes == collect_selected_nodes(built.root_node, leaf_nodes, level)
        output_forest == output_forest_of(built.root_node, selected_nodes,
                                          built.normalized_options)
    IN Returned(shape_output(built.input_is_array, output_forest),
                [ level |-> level,
                  leaf_count |-> Len(leaf_nodes),
                  selected_count |-> Cardinality(selected_nodes) ],
                <<>>)

-----------------------------------------------------------------------------
\* Auxiliary operations

\* flatten_tree walking in post-order
flatten_positions_post_order(root_node) ==
    SelectSeq(WalkPost(root_node, <<>>), LAMBDA p : ~HasRootFlag(NodeAt(root_node, p)))

\* The positions of the nodes that do not carry the root flag, in pre-order
flatten_positions(root_node) ==
    SelectSeq(WalkPre(root_node, <<>>), LAMBDA p : ~HasRootFlag(NodeAt(root_node, p)))

flatten_tree(v, data, opts) ==
    LET root_node == build_tree_model_from_data(v, data, opts).root_node
        kept == flatten_positions(root_node)
    IN Returned(Arr([i \in 1..Len(kept) |-> get_node_payload(NodeAt(root_node, kept[i]))]),
                NoMeta, <<>>)

get_leaf_paths(v, data, opts) ==
    LET root_node == build_tree_model_from_data(v, data, opts).root_node
        leaf_nodes == get_leaf_nodes(root_node)
        path_of(leaf) == PathNodes(root_node, leaf)
    IN Returned(Arr([i \in 1..Len(leaf_nodes) |->
                       Arr([j \in 1..Len(path_of(leaf_nodes[i])) |->
                              get_node_payload(NodeAt(root_node, path_of(leaf_nodes[i])[j]))])]),
                NoMeta, <<>>)

\* The callbacks handed to map_tree and filter_tree: functions, and values
\* that are not functions
Fn(name) == [type |-> "function", name |-> name]

NotAFunction == {[type |-> "undefined", name |-> ""], [type |-> "string", name |-> "upper"]}

IsFunction(fn) == fn.type = "function"

\* payload => payload ; payload => "m" ; payload => ({mapped: payload}) ;
\* payload => [payload]
Mappers == {Fn("identity"), Fn("to_primitive"), Fn("to_object"), Fn("to_array")}

apply_mapper(fn, payload) ==
    CASE fn.name = "identity" -> payload
      [] fn.name = "to_primitive" -> Prim("m")
      [] fn.name = "to_array" -> Arr(<<payload>>)
      [] OTHER -> Obj(<<"mapped">>, <<payload>>)

\* () => true ; () => false ; payload => typeof payload !== "object" ;
\* payload => payload.value === "n"
Predicates == {Fn("always"), Fn("never"), Fn("is_primitive"), Fn("is_branch")}

apply_predicate(fn, payload) ==
    CASE fn.name = "always" -> TRUE
      [] fn.name = "never" -> FALSE
      [] fn.name = "is_primitive" -> payload.kind = "prim"
      [] OTHER -> payload.kind = "obj" /\ Get(payload, "value") = Prim("n")

\* One turn of the loop of map_nodes, for the node at position p: the node
\* pushed and the positions the mapper was invoked on
RECURSIVE map_node(_, _, _, _)

\* map_nodes that invokes the mapper on a node before it maps the children
map_node_top_down(root_node, p, nopts, mapper_fn) ==
    LET node == NodeAt(root_node, p)
        mapped_payload == apply_mapper(mapper_fn, get_node_payload(node))
        mapped_kids == [i \in 1..Len(node.children) |->
                          map_node(root_node, Append(p, i), nopts, mapper_fn)]
        mapped_children == [i \in 1..Len(node.children) |-> mapped_kids[i].out]
        calls == <<p>> \o Concat([i \in 1..Len(node.children) |-> mapped_kids[i].calls])
    IN IF ~IsPlainObject(mapped_payload)
       THEN IF mapped_children = <<>>
            THEN [out |-> mapped_payload, calls |-> calls]
            ELSE [out |-> SetKey(SetKey(EmptyObj, nopts.value_key, mapped_payload),
                                 nopts.children_key, Arr(mapped_children)),
                  calls |-> calls]
       ELSE IF mapped_children # <<>>
            THEN [out |-> SetKey(mapped_payload, nopts.children_key, Arr(mapped_children)),
                  calls |-> calls]
            ELSE [out |-> mapped_payload, calls |-> calls]

map_node(root_node, p, nopts, mapper_fn) ==
    LET node == NodeAt(root_node, p)
        mapped_kids == [i \in 1..Len(node.children) |->
                          map_node(root_node, Append(p, i), nopts, mapper_fn)]
        mapped_children == [i \in 1..Len(node.children) |-> mapped_kids[i].out]
        mapped_payload == apply_mapper(mapper_fn, get_node_payload(node))
        calls == Concat([i \in 1..Len(node.children) |-> mapped_kids[i].calls]) \o <<p>>
    IN IF ~IsPlainObject(mapped_payload)
       THEN IF mapped_children = <<>>
            THEN [out |-> mapped_payload, calls |-> calls]
            ELSE [out |-> SetKey(SetKey(EmptyObj, nopts.value_key, mapped_payload),
                                 nopts.children_key, Arr(mapped_children)),
                  calls |-> calls]
       ELSE IF mapped_children # <<>>
            THEN [out |-> SetKey(mapped_payload, nopts.children_key, Arr(mapped_children)),
                  calls |-> calls]
            ELSE [out |-> mapped_payload, calls |-> calls]

\* map_tree that builds the tree before it checks its mapper
map_tree_checking_late(v, data, opts, mapper_fn) ==
    LET built == build_tree_model_from_data(v, data, opts)
        mapped == [i \in 1..Len(built.root_node.children) |->
                     map_node(built.root_node, <<i>>, built.normalized_options,
                              mapper_fn)]
    IN IF ~IsFunction(mapper_fn)
       THEN Thrown("map_tree requires a mapper function", TRUE)
       ELSE Returned(shape_output(built.input_is_array,
                                  [i \in 1..Len(mapped) |-> mapped[i].out]),
                     NoMeta,
                     Concat([i \in 1..Len(mapped) |-> mapped[i].calls]))

map_tree(v, data, opts, mapper_fn) ==
    IF ~IsFunction(mapper_fn)
    THEN Thrown("map_tree requires a mapper function", FALSE)
    ELSE LET built == build_tree_model_from_data(v, data, opts)
             mapped == [i \in 1..Len(built.root_node.children) |->
                          map_node(built.root_node, <<i>>, built.normalized_options,
                                   mapper_fn)]
         IN Returned(shape_output(built.input_is_array,
                                  [i \in 1..Len(mapped) |-> mapped[i].out]),
                     NoMeta,
                     Concat([i \in 1..Len(mapped) |-> mapped[i].calls]))

\* One turn of the loop of filter_nodes, for the node at position p: the nodes
\* pushed and the positions the predicate was invoked on
RECURSIVE filter_node(_, _, _, _)
filter_node(root_node, p, nopts, predicate_fn) ==
    LET node == NodeAt(root_node, p)
        filtered_kids == [i \in 1..Len(node.children) |->
                            filter_node(root_node, Append(p, i), nopts, predicate_fn)]
        filtered_children == Concat([i \in 1..Len(node.children) |-> filtered_kids[i].out])
        matches == apply_predicate(predicate_fn, get_node_payload(node))
        calls == Concat([i \in 1..Len(node.children) |-> filtered_kids[i].calls]) \o <<p>>
    IN IF ~matches /\ filtered_children = <<>>
       THEN [out |-> <<>>, calls |-> calls]
       ELSE IF ~matches
            THEN [out |-> filtered_children, calls |-> calls]
            ELSE [out |-> <<build_output_node(node, filtered_children, nopts)>>,
                  calls |-> calls]

filter_tree(v, data, opts, predicate_fn) ==
    IF ~IsFunction(predicate_fn)
    THEN Thrown("filter_tree requires a predicate function", FALSE)
    ELSE LET built == build_tree_model_from_data(v, data, opts)
             filtered == [i \in 1..Len(built.root_node.children) |->
                            filter_node(built.root_node, <<i>>, built.normalized_options,
                                        predicate_fn)]
         IN Returned(shape_output(built.input_is_array,
                                  Concat([i \in 1..Len(filtered) |-> filtered[i].out])),
                     NoMeta,
                     Concat([i \in 1..Len(filtered) |-> filtered[i].calls]))

-----------------------------------------------------------------------------
\* The calls

NoLevel == [given |-> FALSE, finite |-> FALSE, tenths |-> 0]

Level(n) == [given |-> TRUE, finite |-> TRUE, tenths |-> 10 * n]

\* options.level is a number given in tenths
LevelTenths(t) == [given |-> TRUE, finite |-> TRUE, tenths |-> t]

\* options.level is given and Number(options.level) is NaN or Infinity
NotFiniteLevel == [given |-> TRUE, finite |-> FALSE, tenths |-> 0]

\* options.level: absent, not finite, -1.5, 0, 2.5, and every whole level up
\* to MaxLevel
LevelOptions ==
    {NoLevel, NotFiniteLevel, LevelTenths(0 - 15), LevelTenths(0), LevelTenths(25)}
    \cup {Level(n) : n \in 1..MaxLevel}

\* options.children_key: absent or an explicit key
KeyOptions == {Undefined, Prim("children"), Prim("r_children")}

Options(level_opt, key_opt) ==
    [ level |-> level_opt, children_key |-> key_opt,
      value_key |-> Undefined, root_label |-> Undefined ]

\* options = {}
EmptyOptions == Options(NoLevel, Undefined)

NoCallback == [type |-> "none", name |-> ""]

NoResult == Thrown("", FALSE)

Operations ==
    {"extract_leaf_levels", "flatten_tree", "get_leaf_paths", "map_tree", "filter_tree"}

TypeOK ==
    /\ variant \in Variants
    /\ input_data \in Inputs
    /\ op \in {"none"} \cup Operations

\* The parts of the repository that a specification leaves out stay as they
\* are before anything has run
LeafExtractIdle ==
    /\ variant = WithDetection
    /\ input_data = Undefined
    /\ options = EmptyOptions
    /\ callback = NoCallback
    /\ op = "none"
    /\ result = NoResult

PathIdle ==
    /\ final_path = <<>>
    /\ temp_path = <<>>
    /\ path_op = "none"

CodexIdle ==
    /\ adapter = "codex_adapter"
    /\ cli_args = <<>>
    /\ command_args = <<>>
    /\ codex_op = "none"

BatchIdle ==
    /\ argv = [retries |-> [finite |-> FALSE, tenths |-> 0],
               batch_size |-> [finite |-> FALSE, tenths |-> 0],
               dry_run |-> FALSE]
    /\ pending_jobs = 0
    /\ batch_pc = "idle"
    /\ index = 0
    /\ job_state = <<>>
    /\ attempt = <<>>
    /\ last_error = <<>>
    /\ processed_count = 0
    /\ failed_count = 0
    /\ total_attempt_count = 0
    /\ retry_attempt_count = 0
    /\ simulated_count = 0

NoCliOptions ==
    [ refresh_mode |-> FALSE, force_overwrite |-> FALSE, dry_run |-> FALSE,
      level |-> "1", output_extension |-> <<>> ]

NoCliCounts == [processed |-> 0, skipped |-> 0, failed |-> 0]

CliIdle ==
    /\ files = {}
    /\ cli_options = NoCliOptions
    /\ input_files = {}
    /\ cli_pc = "idle"
    /\ runs = 0
    /\ cli_counts = NoCliCounts
    /\ processed_inputs = {}

Init ==
    /\ variant \in Variants
    /\ input_data \in Inputs
    /\ options = EmptyOptions
    /\ callback = NoCallback
    /\ op = "none"
    /\ result = NoResult
    /\ PathIdle
    /\ CodexIdle
    /\ BatchIdle
    /\ CliIdle

ExtractLeafLevels ==
    /\ op = "none"
    /\ \E level_opt \in LevelOptions, key_opt \in KeyOptions :
          /\ options' = Options(level_opt, key_opt)
          /\ result' = extract_leaf_levels(variant, input_data, options')
    /\ op' = "extract_leaf_levels"
    /\ input_data' = IF result'.tree_built
                      THEN input_after_call(variant, input_data, options')
                      ELSE input_data
    /\ UNCHANGED <<variant, callback>>
    /\ UNCHANGED outside_leaf_extract

FlattenTree ==
    /\ op = "none"
    /\ \E key_opt \in KeyOptions :
          /\ options' = Options(NoLevel, key_opt)
          /\ result' = flatten_tree(variant, input_data, options')
    /\ op' = "flatten_tree"
    /\ input_data' = IF result'.tree_built
                      THEN input_after_call(variant, input_data, options')
                      ELSE input_data
    /\ UNCHANGED <<variant, callback>>
    /\ UNCHANGED outside_leaf_extract

GetLeafPaths ==
    /\ op = "none"
    /\ \E key_opt \in KeyOptions :
          /\ options' = Options(NoLevel, key_opt)
          /\ result' = get_leaf_paths(variant, input_data, options')
    /\ op' = "get_leaf_paths"
    /\ input_data' = IF result'.tree_built
                      THEN input_after_call(variant, input_data, options')
                      ELSE input_data
    /\ UNCHANGED <<variant, callback>>
    /\ UNCHANGED outside_leaf_extract

MapTree ==
    /\ op = "none"
    /\ \E key_opt \in KeyOptions, mapper_fn \in Mappers \cup NotAFunction :
          /\ options' = Options(NoLevel, key_opt)
          /\ callback' = mapper_fn
          /\ result' = map_tree(variant, input_data, options', mapper_fn)
    /\ op' = "map_tree"
    /\ input_data' = IF result'.tree_built
                      THEN input_after_call(variant, input_data, options')
                      ELSE input_data
    /\ UNCHANGED variant
    /\ UNCHANGED outside_leaf_extract

FilterTree ==
    /\ op = "none"
    /\ \E key_opt \in KeyOptions, predicate_fn \in Predicates \cup NotAFunction :
          /\ options' = Options(NoLevel, key_opt)
          /\ callback' = predicate_fn
          /\ result' = filter_tree(variant, input_data, options', predicate_fn)
    /\ op' = "filter_tree"
    /\ input_data' = IF result'.tree_built
                      THEN input_after_call(variant, input_data, options')
                      ELSE input_data
    /\ UNCHANGED variant
    /\ UNCHANGED outside_leaf_extract

\* The caller drops the result; nothing of the call is retained
Return ==
    /\ op # "none"
    /\ options' = EmptyOptions
    /\ callback' = NoCallback
    /\ op' = "none"
    /\ result' = NoResult
    /\ UNCHANGED <<variant, input_data>>
    /\ UNCHANGED outside_leaf_extract

Next ==
    \/ ExtractLeafLevels
    \/ FlattenTree
    \/ GetLeafPaths
    \/ MapTree
    \/ FilterTree
    \/ Return

Spec == Init /\ [][Next]_vars

-----------------------------------------------------------------------------
\* What the claims are stated in

Extracted == op = "extract_leaf_levels"

\* The tree, options and level of the call the state records
CallBuilt == build_tree_model_from_data(variant, input_data, options)
CallRoot == CallBuilt.root_node
CallOptions == CallBuilt.normalized_options
CallLevel == coerce_level(options.level)
CallLeaves == get_leaf_nodes(CallRoot)

\* The positions below a node, the node at p excluded
RECURSIVE PositionsBelow(_, _)
PositionsBelow(node, p) ==
    UNION { {Append(p, i)} \cup PositionsBelow(node.children[i], Append(p, i))
            : i \in 1..Len(node.children) }

\* Every position of the tree but the sentinel's
AllPositions(root_node) == PositionsBelow(root_node, <<>>)

IsPrefix(p, q) == Len(p) <= Len(q) /\ SubSeq(q, 1, Len(p)) = p

ChildlessPositions(root_node) ==
    {p \in AllPositions(root_node) : NodeAt(root_node, p).children = <<>>}

\* The depth of the deepest node, the sentinel not counted
MaxDepth(root_node) ==
    IF AllPositions(root_node) = {} THEN 0
    ELSE CHOOSE d \in {Len(p) : p \in AllPositions(root_node)} :
           \A p \in AllPositions(root_node) : Len(p) <= d

RECURSIVE SumSeq(_)
SumSeq(ns) == IF ns = <<>> THEN 0 ELSE Head(ns) + SumSeq(Tail(ns))

\* The number of nodes of an output value whose children are under the key ck
RECURSIVE OutputNodeCount(_, _)
OutputNodeCount(value, ck) ==
    IF IsPlainObject(value) /\ IsArray(Get(value, ck))
    THEN 1 + SumSeq([i \in 1..Len(Get(value, ck).items) |->
                       OutputNodeCount(Get(value, ck).items[i], ck)])
    ELSE 1

\* The candidate keys that hold an array anywhere in a value
RECURSIVE CandidateKeysUsed(_)
CandidateKeysUsed(value) ==
    UNION ( { CandidateKeysUsed(value.items[i]) : i \in 1..Len(value.items) }
            \cup { { DEFAULT_CHILDREN_CANDIDATES[c] : c \in
                       { d \in 1..Len(DEFAULT_CHILDREN_CANDIDATES) :
                           /\ IsPlainObject(value)
                           /\ IsArray(Get(value, DEFAULT_CHILDREN_CANDIDATES[d])) } } } )

\* The nodes the call selects, and the same call made one level higher
CallSelected == collect_selected_nodes(CallRoot, CallLeaves, CallLevel)
NextLevelCall ==
    extract_leaf_levels(variant, input_data,
                        [options EXCEPT !.level = Level(CallLevel + 1)])

-----------------------------------------------------------------------------
\* C1: for every input and level, the output_data of extract_leaf_levels is an
\* array exactly when input_data is an array; for an input that is not an
\* array it is a single value or null, never an array.
C1_ShapePreservation ==
    Extracted => (IsArray(result.output_data) <=> IsArray(input_data))

\* The payloads/raw values of the leaves get_leaf_nodes returns, in its order
CallLeafValues ==
    [i \in 1..Len(CallLeaves) |-> get_node_payload(NodeAt(CallRoot, CallLeaves[i]))]

\* The output forest of the call, before the shape decision
CallForest == output_forest_of(CallRoot, CallSelected, CallOptions)

\* C2 amended: at level 1 the output forest consists of exactly the
\* payloads/raw values of all the leaves get_leaf_nodes returns, in the same
\* order; output_data is that whole list for an array input and, for a
\* single-root input, only its first element (null when there is no leaf).
C2_LevelOneLeaves ==
    Extracted /\ CallLevel = 1 =>
        LET leaf_values == CallLeafValues
        IN /\ CallForest = leaf_values
           /\ result.output_data =
                IF IsArray(input_data) THEN Arr(leaf_values)
                ELSE IF leaf_values = <<>> THEN Null
                ELSE leaf_values[1]

C2_Witness ==
    /\ Extracted
    /\ CallLevel = 1
    /\ ~IsArray(input_data)
    /\ Len(CallLeaves) >= 2
    /\ result.output_data = CallLeafValues[1]

\* C2 as stated: at level 1 the output_data of extract_leaf_levels consists
\* of exactly the payloads/raw values of all the leaves get_leaf_nodes
\* returns, in the same order, for an array input and for a single-root input
\* alike.
C2_LevelOneIsAllLeaves ==
    Extracted /\ CallLevel = 1 =>
        LET leaf_values == [i \in 1..Len(CallLeaves) |->
                              get_node_payload(NodeAt(CallRoot, CallLeaves[i]))]
            emitted == IF IsArray(input_data) THEN result.output_data.items
                       ELSE IF Len(CallLeaves) = 0 THEN <<>>
                       ELSE <<result.output_data>>
        IN emitted = leaf_values

C4_LevelMonotonicity ==
    Extracted =>
        /\ LET root_node == CallRoot
               leaf_nodes == get_leaf_nodes(root_node)
           IN collect_selected_nodes(root_node, leaf_nodes, CallLevel) \subseteq
                collect_selected_nodes(root_node, leaf_nodes, CallLevel + 1)
        /\ result.meta.selected_count <= NextLevelCall.meta.selected_count

C4_Witness ==
    /\ Extracted
    /\ result.meta.selected_count > 0
    /\ result.meta.selected_count < NextLevelCall.meta.selected_count

\* Every object node of a tree keeps, under the key ck, nothing or an array
\* that is not empty
RECURSIVE ChildrenAreFilledArrays(_, _)
ChildrenAreFilledArrays(raw_node, ck) ==
    IsPlainObject(raw_node) /\ HasKey(raw_node, ck) =>
        /\ IsArray(Get(raw_node, ck))
        /\ Get(raw_node, ck).items # <<>>
        /\ \A i \in 1..Len(Get(raw_node, ck).items) :
               ChildrenAreFilledArrays(Get(raw_node, ck).items[i], ck)

InputChildrenAreFilledArrays ==
    IF IsArray(input_data)
    THEN \A i \in 1..Len(input_data.items) :
             ChildrenAreFilledArrays(input_data.items[i], CallOptions.children_key)
    ELSE ChildrenAreFilledArrays(input_data, CallOptions.children_key)

EmptyMeta == [level |-> 1, leaf_count |-> 0, selected_count |-> 0]

\* C6 as stated: extract_leaf_levels([], {}) returns output_data [] with meta
\* {leaf_count: 0, selected_count: 0, level: 1} without throwing, and
\* extract_leaf_levels(undefined, {}) returns an identical result.
C6_EmptyInputIdentical ==
    ( /\ Extracted
      /\ options = EmptyOptions
      /\ input_data \in {Arr(<<>>), Undefined} ) =>
        /\ result.thrown = ""
        /\ result.output_data = Arr(<<>>)
        /\ result.meta = EmptyMeta

\* C6 amended: extract_leaf_levels([], {}) returns output_data [] with meta
\* {leaf_count: 0, selected_count: 0, level: 1} without throwing, and
\* extract_leaf_levels(undefined, {}) returns the same meta with output_data
\* null.
C6_EmptyInput ==
    ( /\ Extracted
      /\ options = EmptyOptions
      /\ input_data \in {Arr(<<>>), Undefined} ) =>
        /\ result.thrown = ""
        /\ result.output_data = (IF input_data = Undefined THEN Null ELSE Arr(<<>>))
        /\ result.meta = EmptyMeta

C6_Witness ==
    /\ Extracted
    /\ options = EmptyOptions
    /\ input_data = Undefined
    /\ result.output_data = Null

\* C7: for a top-level array of primitive values, output_data equals the input
\* array, in the same order, at every level.
C7_PrimitiveArrayUnchanged ==
    ( /\ Extracted
      /\ IsArray(input_data)
      /\ \A i \in 1..Len(input_data.items) :
             input_data.items[i].kind \in {"prim", "null"} ) =>
        /\ result.output_data = input_data
        /\ result.meta.leaf_count = Len(input_data.items)

C7_Witness ==
    /\ Extracted
    /\ input_data = PrimitiveExample
    /\ CallLevel > 1
    /\ result.output_data = PrimitiveExample

\* C8: when r_children is the array-valued children key of the input and no
\* children_key option is given, extract_leaf_levels resolves the children
\* key to r_children and returns what the call with children_key
\* "r_children" returns.
C8_DetectsRChildren ==
    ( /\ Extracted
      /\ options.children_key = Undefined
      /\ CandidateKeysUsed(input_data) = {"r_children"} ) =>
        /\ CallOptions.children_key = "r_children"
        /\ result = extract_leaf_levels(variant, input_data,
                                        [options EXCEPT !.children_key = Prim("r_children")])

\* The number of nodes of a list of output values
OutputForestCount(forest) ==
    SumSeq([i \in 1..Len(forest) |-> OutputNodeCount(forest[i], CallOptions.children_key)])

C10_CallbackPrecondition ==
    op \in {"map_tree", "filter_tree"} =>
        IF ~IsFunction(callback)
        THEN /\ result.thrown = (IF op = "map_tree"
                                 THEN "map_tree requires a mapper function"
                                 ELSE "filter_tree requires a predicate function")
             /\ ~result.tree_built
             /\ result.calls = <<>>
             /\ result.output_data = Undefined
        ELSE /\ result.thrown = ""
             /\ result.tree_built
             /\ result.output_data # Undefined
             /\ Len(result.calls) = Cardinality(AllPositions(CallRoot))
             /\ {result.calls[i] : i \in 1..Len(result.calls)} = AllPositions(CallRoot)

C10_Witness ==
    /\ op = "map_tree"
    /\ ~IsFunction(callback)
    /\ result.thrown # ""
    /\ AllPositions(CallRoot) # {}

-----------------------------------------------------------------------------
\* The callback's answer for the node at p, and the nodes the rule "the
\* predicate holds for it or it has a kept descendant" keeps
Matches(root_node, p, predicate_fn) ==
    apply_predicate(predicate_fn, get_node_payload(NodeAt(root_node, p)))

KeptByRule(root_node, predicate_fn) ==
    {p \in AllPositions(root_node) :
        \E q \in AllPositions(root_node) :
            IsPrefix(p, q) /\ Matches(root_node, q, predicate_fn)}

Filtered == op = "filter_tree" /\ IsFunction(callback)

\* C11: filter_tree keeps a node in its output exactly when the predicate is
\* true for it or it has at least one kept descendant, and the result is an
\* array exactly when the input is an array.
C11_KeepsAncestorsOfKept ==
    Filtered =>
        /\ IsArray(result.output_data) <=> IsArray(input_data)
        /\ IsArray(input_data) =>
             OutputForestCount(result.output_data.items)
               = Cardinality(KeptByRule(CallRoot, callback))

-----------------------------------------------------------------------------
Mapped == op = "map_tree" /\ IsFunction(callback)

\* The output value out stands where the node at p stood: it carries a list
\* of children under ck exactly when the node has children, one per child and
\* in the same order
RECURSIVE MirrorsNode(_, _, _, _)
MirrorsNode(root_node, p, out, ck) ==
    LET kids == NodeAt(root_node, p).children
    IN IF kids = <<>>
       THEN ~(IsPlainObject(out) /\ IsArray(Get(out, ck)))
       ELSE /\ IsPlainObject(out)
            /\ IsArray(Get(out, ck))
            /\ Len(Get(out, ck).items) = Len(kids)
            /\ \A i \in 1..Len(kids) :
                  MirrorsNode(root_node, Append(p, i), Get(out, ck).items[i], ck)

\* One output node per input node, in the same parent/sibling position
MirrorsInput ==
    IF IsArray(input_data)
    THEN /\ IsArray(result.output_data)
         /\ Len(result.output_data.items) = Len(CallRoot.children)
         /\ \A i \in 1..Len(CallRoot.children) :
               MirrorsNode(CallRoot, <<i>>, result.output_data.items[i],
                           CallOptions.children_key)
    ELSE IF CallRoot.children = <<>>
         THEN result.output_data = Null
         ELSE /\ Len(CallRoot.children) = 1
              /\ MirrorsNode(CallRoot, <<1>>, result.output_data,
                             CallOptions.children_key)

\* The callback is invoked exactly once per node, on every descendant of a
\* node before the node itself
CalledBottomUp ==
    /\ Len(result.calls) = Cardinality(AllPositions(CallRoot))
    /\ {result.calls[i] : i \in 1..Len(result.calls)} = AllPositions(CallRoot)
    /\ \A i, j \in 1..Len(result.calls) :
          (i # j /\ IsPrefix(result.calls[j], result.calls[i])) => i < j

\* What the mapper returns for the only top-level node of a single-root input
MappedRoot == apply_mapper(callback, get_node_payload(NodeAt(CallRoot, <<1>>)))

\* C12 amended: map_tree returns an array when the input is an array; for an
\* input that is not an array it returns the mapped root (null when there is
\* none), which is an array only when the root has no children and the mapper
\* returned an array for it. There is exactly one output node per non-sentinel
\* input node in the same parent/sibling position, and the mapper is invoked
\* exactly once per node, on every descendant of a node before the node.
C12_MapKeepsStructure ==
    Mapped =>
        /\ IsArray(input_data) => IsArray(result.output_data)
        /\ ~IsArray(input_data) =>
             (IsArray(result.output_data) <=>
                /\ CallRoot.children # <<>>
                /\ NodeAt(CallRoot, <<1>>).children = <<>>
                /\ IsArray(MappedRoot))
        /\ MirrorsInput
        /\ CalledBottomUp

C12_Witness ==
    /\ Mapped
    /\ ~IsArray(input_data)
    /\ IsArray(result.output_data)
    /\ result.calls = <<<<1>>>>

\* C12 as stated: map_tree returns an array exactly when the input is an
\* array, with one output node per input node in the same position, the
\* mapper invoked once per node and bottom-up.
C12_MapSameShape ==
    Mapped =>
        /\ IsArray(result.output_data) <=> IsArray(input_data)
        /\ MirrorsInput
        /\ CalledBottomUp

-----------------------------------------------------------------------------
\* p comes before q in pre-order: p is an ancestor of q, or at the first index
\* where they differ p takes the earlier sibling
PreBefore(p, q) ==
    /\ p # q
    /\ \/ IsPrefix(p, q)
       \/ \E i \in 1..Len(p) :
             /\ i <= Len(q)
             /\ SubSeq(p, 1, i - 1) = SubSeq(q, 1, i - 1)
             /\ p[i] < q[i]

\* The place of the node at p in the pre-order listing of the tree
PreOrderRank(root_node, p) ==
    1 + Cardinality({q \in AllPositions(root_node) : PreBefore(q, p)})

-----------------------------------------------------------------------------
\* The place of the leaf at p among the leaves, left to right
LeafRank(root_node, p) ==
    1 + Cardinality({q \in ChildlessPositions(root_node) : PreBefore(q, p)})

\* The payloads/raw values from the top-level ancestor of p down to p
AncestorValues(root_node, p) ==
    Arr([j \in 1..Len(p) |-> get_node_payload(NodeAt(root_node, SubSeq(p, 1, j)))])

-----------------------------------------------------------------------------
\* What the operation o returns when it is the only call ever made on data
IsolatedCall(o, v, data, opts, fn) ==
    CASE o = "extract_leaf_levels" -> extract_leaf_levels(v, data, opts)
      [] o = "flatten_tree" -> flatten_tree(v, data, opts)
      [] o = "get_leaf_paths" -> get_leaf_paths(v, data, opts)
      [] o = "map_tree" -> map_tree(v, data, opts, fn)
      [] OTHER -> filter_tree(v, data, opts, fn)

-----------------------------------------------------------------------------
\* A raw value that is a string, number, boolean or null
IsJsonPrimitive(value) == value.kind \in {"prim", "null"}

\* The output forest of the call: the output list of an array input, the one
\* output value of any other
EmittedValues ==
    IF IsArray(input_data) THEN result.output_data.items ELSE <<result.output_data>>

\* The level-1 output fed back through extract_leaf_levels at level 1
FedBack == extract_leaf_levels(variant, result.output_data, options)

FedBackLeafValues ==
    LET built == build_tree_model_from_data(variant, result.output_data, options)
        leaf_nodes == get_leaf_nodes(built.root_node)
    IN [i \in 1..Len(leaf_nodes) |->
          get_node_payload(NodeAt(built.root_node, leaf_nodes[i]))]

\* C16: at level 1 a leaf that holds a primitive raw value is emitted as the
\* bare value, not wrapped; when the input has leaves and they are primitive,
\* feeding the level-1 output back through extract_leaf_levels at level 1
\* yields the same output, whose leaves are the values emitted.
C16_PrimitiveRoundTrip ==
    (Extracted /\ CallLevel = 1 /\ CallLeaves # <<>>) =>
        LET leaf_values == CallLeafValues
            emitted == EmittedValues
        IN /\ \A i \in 1..Len(emitted) :
                 IsJsonPrimitive(leaf_values[i]) => emitted[i] = leaf_values[i]
           /\ (\A i \in 1..Len(leaf_values) : IsJsonPrimitive(leaf_values[i])) =>
                 /\ FedBack.output_data = result.output_data
                 /\ FedBackLeafValues = emitted

C16_Witness ==
    /\ Extracted
    /\ CallLevel = 1
    /\ MaxDepth(CallRoot) >= 2
    /\ Len(EmittedValues) >= 2
    /\ \A i \in 1..Len(CallLeafValues) : IsJsonPrimitive(CallLeafValues[i])
    /\ FedBackLeafValues = EmittedValues

-----------------------------------------------------------------------------
\* lib/live_media: temporary output paths.  A path is the sequence of its
\* characters.

\* Bound of the model: the longest base name drawn
MaxNameLen == 4

NameChars == {"v", "."}

\* Base names of files: every name over NameChars but "." and ".."
BaseNames ==
    UNION { [1..n -> NameChars] : n \in 1..MaxNameLen } \ {<<".">>, <<".", ".">>}

\* The directories of the targets: absolute, nested, the root, none (relative)
Directories == {<<"/", "t">>, <<"/", "t", "/", "a">>, <<"/">>, <<>>}

\* path.join("/tmp", "sample.video.compressed.medium.mp4")
MediaTarget ==
    <<"/", "t", "m", "p", "/", "s", "a", "m", "p", "l", "e", ".", "v", "i",
    "d", "e", "o", ".", "c", "o", "m", "p", "r", "e", "s", "s", "e", "d",
    ".", "m", "e", "d", "i", "u", "m", ".", "m", "p", "4">>

\* path.join("/tmp", "archive", "video_output")
ExtensionlessTarget ==
    <<"/", "t", "m", "p", "/", "a", "r", "c", "h", "i", "v", "e", "/", "v",
    "i", "d", "e", "o", "_", "o", "u", "t", "p", "u", "t">>

FinalPaths ==
    { (IF d \in {<<"/">>, <<>>} THEN d ELSE d \o <<"/">>) \o b
        : d \in Directories, b \in BaseNames }
    \cup {MediaTarget, ExtensionlessTarget}

\* `${process.pid}-${Date.now().toString(16)}-${Math.random().toString(16).slice(2)}`:
\* digits and hex digits joined by "-"; the last part is empty when
\* Math.random() returns 0
UniqueSuffixes ==
    { <<"7", "-", "a", "-", "f">>, <<"7", "-", "a", "-", "4">>, <<"7", "-", "a", "-">> }

\* The last index of character c in s, 0 when there is none
LastIndexOf(s, c) ==
    IF \E i \in 1..Len(s) : s[i] = c
    THEN CHOOSE i \in 1..Len(s) : s[i] = c /\ \A j \in (i + 1)..Len(s) : s[j] # c
    ELSE 0

\* path.dirname, path.basename, path.extname and path.join of posix paths
\* without a trailing slash
dirname(p) ==
    LET i == LastIndexOf(p, "/")
    IN IF i = 0 THEN <<".">> ELSE IF i = 1 THEN <<"/">> ELSE SubSeq(p, 1, i - 1)

basename(p) == SubSeq(p, LastIndexOf(p, "/") + 1, Len(p))

extname(p) ==
    LET b == basename(p)
        d == LastIndexOf(b, ".")
    IN IF d <= 1 \/ b = <<".", ".">> THEN <<>> ELSE SubSeq(b, d, Len(b))

\* path.parse(p).name
parsed_name(p) == SubSeq(basename(p), 1, Len(basename(p)) - Len(extname(p)))

join(directory, name) ==
    IF directory = <<".">> THEN name
    ELSE IF directory = <<"/">> THEN <<"/">> \o name
    ELSE directory \o <<"/">> \o name

TmpMark == <<".", "t", "m", "p", "-">>

\* compress_video.js
create_temporary_output_path(path, unique_suffix) ==
    LET directory == dirname(path)
        base_name == basename(path)
        temp_name == <<".">> \o base_name \o TmpMark \o unique_suffix
    IN join(directory, temp_name)

\* extract_audio.js
extract_audio_create_temporary_output_path(path, unique_suffix) ==
    LET directory == dirname(path)
        name == parsed_name(path)
        normalized_extension == extname(path)
        temp_name == <<".">> \o name \o TmpMark \o unique_suffix \o normalized_extension
    IN join(directory, temp_name)

PathInit ==
    /\ final_path \in FinalPaths
    /\ temp_path = <<>>
    /\ path_op = "none"
    /\ LeafExtractIdle
    /\ CodexIdle
    /\ BatchIdle
    /\ CliIdle

CompressVideoTemporaryPath ==
    /\ path_op = "none"
    /\ \E unique_suffix \in UniqueSuffixes :
          temp_path' = create_temporary_output_path(final_path, unique_suffix)
    /\ path_op' = "compress_video"
    /\ UNCHANGED <<final_path, leaf_extract_vars, codex_vars, batch_vars, cli_vars>>

ExtractAudioTemporaryPath ==
    /\ path_op = "none"
    /\ \E unique_suffix \in UniqueSuffixes :
          temp_path' = extract_audio_create_temporary_output_path(final_path, unique_suffix)
    /\ path_op' = "extract_audio"
    /\ UNCHANGED <<final_path, leaf_extract_vars, codex_vars, batch_vars, cli_vars>>

\* The conversion ends: the temporary file is renamed or removed
TemporaryPathDropped ==
    /\ path_op # "none"
    /\ temp_path' = <<>>
    /\ path_op' = "none"
    /\ UNCHANGED <<final_path, leaf_extract_vars, codex_vars, batch_vars, cli_vars>>

PathNext ==
    \/ CompressVideoTemporaryPath
    \/ ExtractAudioTemporaryPath
    \/ TemporaryPathDropped

PathSpec == PathInit /\ [][PathNext]_vars

StartsWith(s, prefix) == Len(prefix) <= Len(s) /\ SubSeq(s, 1, Len(prefix)) = prefix

EndsWith(s, suffix) ==
    Len(suffix) <= Len(s) /\ SubSeq(s, Len(s) - Len(suffix) + 1, Len(s)) = suffix

\* The name the claim describes: in the directory of the final path, starting
\* with "." + the base name without its extension + ".tmp-", ending with the
\* extension of the final path, and not ending with ".tmp"
KeepsMediaExtension(final, temp) ==
    /\ dirname(temp) = dirname(final)
    /\ StartsWith(basename(temp), <<".">> \o parsed_name(final) \o TmpMark)
    /\ EndsWith(basename(temp), extname(final))
    /\ ~EndsWith(basename(temp), <<".", "t", "m", "p">>)

\* C17: the temporary path the video compressor makes for a final path is in
\* the final path's directory, its name starts with "." + the final base name
\* without extension + ".tmp-" and ends with the final path's extension; for
\* a target without extension it does not end with ".tmp".
C17_VideoTemporaryKeepsExtension ==
    path_op = "compress_video" => KeepsMediaExtension(final_path, temp_path)

-----------------------------------------------------------------------------
\* utility/ai_adapter/codex_adapter.js and its variant: the arguments handed
\* to codex-cli.  A token is a string; what the code asks of a token
\* (startsWith("-"), includes("=")) is given by the sets below.

\* Bound of the model: the most tokens CODEX_CLI_ARGS holds
MaxArgs == 3

flags_without_value ==
    { "--oss", "--full-auto", "--dangerously-bypass-approvals-and-sandbox",
      "--skip-git-repo-check", "--json", "--help", "--version", "-h", "-V" }

flags_with_value ==
    { "-c", "--config", "-m", "--model", "-p", "--profile", "-s", "--sandbox",
      "-a", "--ask-for-approval", "-C", "--cd", "--color",
      "--output-last-message", "-i", "--image" }

preserved_subcommands == {"exec", "resume", "help", "login"}

\* The tokens CODEX_CLI_ARGS is made of: flags that take a value, a flag that
\* takes none, a flag the adapter does not know, a flag written --flag=value,
\* values, a subcommand, the "--" separator and an empty entry
ArgTokens ==
    { "-c", "--model", "--json", "-x", "--color=never",
      "model_reasoning_effort=high", "high", "exec", "--", "" }

StartsWithDash(token) ==
    token \in flags_without_value \cup flags_with_value
              \cup {"-x", "--color=never", "--"}

IncludesEquals(token) == token \in {"--color=never", "model_reasoning_effort=high"}

\* cli_args.filter((entry) => typeof entry === "string" && entry.length > 0)
sanitized_args(args) == SelectSeq(args, LAMBDA entry : entry # "")

\* Array.prototype.indexOf, from 1; 0 stands for -1
IndexOf(s, x) ==
    IF \E i \in 1..Len(s) : s[i] = x
    THEN CHOOSE i \in 1..Len(s) : s[i] = x /\ \A j \in 1..(i - 1) : s[j] # x
    ELSE 0

\* The number of tokens before "--", all of them when there is none
search_limit(args_copy) ==
    IF IndexOf(args_copy, "--") = 0 THEN Len(args_copy) ELSE IndexOf(args_copy, "--") - 1

\* The while loop of codex_adapter.js from scan_index on: the index of the
\* first positional token, 0 when the scan ends without one
RECURSIVE scan_from(_, _)
scan_from(args_copy, scan_index) ==
    IF scan_index > search_limit(args_copy) THEN 0
    ELSE LET token == args_copy[scan_index]
         IN IF ~StartsWithDash(token) THEN scan_index
            ELSE IF IncludesEquals(token) THEN scan_from(args_copy, scan_index + 1)
            ELSE IF token \in flags_without_value
                 THEN scan_from(args_copy, scan_index + 1)
            ELSE IF token \in flags_with_value
                 THEN scan_from(args_copy, scan_index + 2)
            ELSE IF scan_index + 1 <= Len(args_copy)
                      /\ ~StartsWithDash(args_copy[scan_index + 1])
                 THEN scan_from(args_copy, scan_index + 2)
            ELSE scan_from(args_copy, scan_index + 1)

\* The findIndex of the variant: the first token before "--" that does not
\* start with "-"
find_first_positional(args_copy) ==
    IF \E i \in 1..search_limit(args_copy) : ~StartsWithDash(args_copy[i])
    THEN CHOOSE i \in 1..search_limit(args_copy) :
            /\ ~StartsWithDash(args_copy[i])
            /\ \A j \in 1..(i - 1) : StartsWithDash(args_copy[j])
    ELSE 0

first_positional_index(which, args_copy) ==
    IF which = "codex_adapter" THEN scan_from(args_copy, 1)
    ELSE find_first_positional(args_copy)

\* args_copy.splice(index, 0, "exec")
InsertAt(s, at, x) == SubSeq(s, 1, at - 1) \o <<x>> \o SubSeq(s, at, Len(s))

ensure_non_interactive_cli_args(which, args) ==
    LET args_copy == sanitized_args(args)
        first == first_positional_index(which, args_copy)
    IN IF first = 0 THEN Append(args_copy, "exec")
       ELSE IF args_copy[first] \in preserved_subcommands THEN args_copy
       ELSE InsertAt(args_copy, first, "exec")

Adapters == {"codex_adapter", "part_009"}

CodexInit ==
    /\ adapter \in Adapters
    /\ cli_args \in UNION { [1..n -> ArgTokens] : n \in 0..MaxArgs }
    /\ command_args = <<>>
    /\ codex_op = "none"
    /\ LeafExtractIdle
    /\ PathIdle
    /\ BatchIdle
    /\ CliIdle

EnsureNonInteractiveCliArgs ==
    /\ codex_op = "none"
    /\ command_args' = ensure_non_interactive_cli_args(adapter, cli_args)
    /\ codex_op' = "invoked"
    /\ UNCHANGED <<adapter, cli_args, leaf_extract_vars, path_vars, batch_vars, cli_vars>>

\* invoke returns; the next invocation parses CODEX_CLI_ARGS again
InvokeReturns ==
    /\ codex_op = "invoked"
    /\ command_args' = <<>>
    /\ codex_op' = "none"
    /\ UNCHANGED <<adapter, cli_args, leaf_extract_vars, path_vars, batch_vars, cli_vars>>

CodexNext ==
    \/ EnsureNonInteractiveCliArgs
    \/ InvokeReturns

CodexSpec == CodexInit /\ [][CodexNext]_vars

\* A value of a flag: any token that is not a flag
IsFlagValue(token) == ~StartsWithDash(token)

\* args is made of flags only: flags that take no value, --flag=value
\* tokens, and flags that take a value, each followed by its value
RECURSIVE OnlyFlags(_)
OnlyFlags(args) ==
    \/ args = <<>>
    \/ /\ Head(args) \in flags_without_value \cup {"--color=never"}
       /\ OnlyFlags(Tail(args))
    \/ /\ Head(args) \in flags_with_value
       /\ Len(args) >= 2
       /\ IsFlagValue(args[2])
       /\ OnlyFlags(Tail(Tail(args)))

\* C18: when CODEX_CLI_ARGS holds only flags (with the values of the flags
\* that take one) and no subcommand, the adapter puts exec after all of them:
\* the arguments are the sanitized flags in their order, then exec, so exec
\* never stands between a flag and its value.
C18_ExecAfterFlags ==
    (codex_op = "invoked" /\ OnlyFlags(sanitized_args(cli_args))) =>
        command_args = Append(sanitized_args(cli_args), "exec")

-----------------------------------------------------------------------------
\* utility/text_prompt_batch_runner.js: the batch loop of one run.  A job is
\* its place in pending_jobs; pending_jobs is their number.

\* Bounds of the model: the most pending files, and the largest whole value
\* given for --retries and --batch-size
MaxJobs == 3
MaxRequested == 2

\* normalize_config: the defaults of a configuration that names none
DefaultBatchSize == 5
DefaultRetryCount == 3

\* Number(argv[...]): NaN, or a number given in tenths
NotANumber == [finite |-> FALSE, tenths |-> 0]

Tenths(t) == [finite |-> TRUE, tenths |-> t]

\* The values given for an option: not a number, 0, every whole value up to
\* MaxRequested, and a fraction above MaxRequested
RequestedValues ==
    {NotANumber, Tenths(0), Tenths(10 * MaxRequested + 5)}
    \cup {Tenths(10 * n) : n \in 1..MaxRequested}

validate_integer_option(provided_value, fallback_value, minimum) ==
    IF provided_value.finite /\ provided_value.tenths >= 10 * minimum
    THEN provided_value.tenths \div 10
    ELSE fallback_value

batch_size == validate_integer_option(argv.batch_size, DefaultBatchSize, 1)

max_retry_count == validate_integer_option(argv.retries, DefaultRetryCount, 1)

non_retryable_markers ==
    { "insufficient_quota", "invalid_api_key", "incorrect_api_key", "unauthorized",
      "authentication", "failed to deserialize overridden config",
      "unknown variant", "unexpected argument", "unsupported ai platform" }

\* The messages of the errors the AI operation rejects with
ErrorMessages == {"Request timed out", "insufficient_quota", "401 Unauthorized"}

\* The markers that message.toLowerCase() includes
MarkersIncluded(message) ==
    CASE message = "insufficient_quota" -> {"insufficient_quota"}
      [] message = "401 Unauthorized" -> {"unauthorized"}
      [] OTHER -> {}

should_retry_error(message) == MarkersIncluded(message) \cap non_retryable_markers = {}

\* while (attempt < max_retry_count) entered once more after `tries` attempts
\* even when tries = max_retry_count
loop_continues_inclusive(tries, limit) == tries <= limit

\* while (attempt < max_retry_count)
loop_continues(tries, limit) == tries < limit

\* pending_jobs.slice(index, index + batch_size)
BatchAt(start, size, total) == {j \in 1..total : start < j /\ j <= start + size}

Settled(j) == job_state[j] \in {"processed", "failed"}

\* Promise.all resolving although a job of the batch is still running
batch_settled_early(start, size, total) == TRUE

\* Promise.all(batch.map(process_job)) has resolved: process_job never
\* rejects, so that is when every job of the batch has returned
batch_settled(start, size, total) == \A j \in BatchAt(start, size, total) : Settled(j)

BatchInit ==
    /\ argv \in [retries : RequestedValues, batch_size : RequestedValues,
                 dry_run : BOOLEAN]
    /\ pending_jobs \in 0..MaxJobs
    /\ batch_pc = IF pending_jobs = 0 THEN "done" ELSE "loop"
    /\ index = 0
    /\ job_state = [j \in 1..pending_jobs |-> "pending"]
    /\ attempt = [j \in 1..pending_jobs |-> 0]
    /\ last_error = [j \in 1..pending_jobs |-> ""]
    /\ processed_count = 0
    /\ failed_count = 0
    /\ total_attempt_count = 0
    /\ retry_attempt_count = 0
    /\ simulated_count = 0
    /\ LeafExtractIdle
    /\ PathIdle
    /\ CodexIdle
    /\ CliIdle

outside_batch == <<leaf_extract_vars, path_vars, codex_vars, cli_vars>>

\* One turn of the for loop up to its await: process_job is called for every
\* job of the batch; a dry run returns at once, any other job enters
\* run_with_retries and makes its first attempt (max_retry_count is 1 or more)
StartBatch ==
    /\ batch_pc = "loop"
    /\ index < pending_jobs
    /\ LET batch == BatchAt(index, batch_size, pending_jobs)
       IN IF argv.dry_run
          THEN /\ job_state' = [j \in 1..pending_jobs |->
                                  IF j \in batch THEN "processed" ELSE job_state[j]]
               /\ simulated_count' = simulated_count + Cardinality(batch)
               /\ processed_count' = processed_count + Cardinality(batch)
               /\ UNCHANGED <<attempt, total_attempt_count>>
          ELSE /\ job_state' = [j \in 1..pending_jobs |->
                                  IF j \in batch THEN "running" ELSE job_state[j]]
               /\ attempt' = [j \in 1..pending_jobs |->
                                IF j \in batch THEN 1 ELSE attempt[j]]
               /\ total_attempt_count' = total_attempt_count + Cardinality(batch)
               /\ UNCHANGED <<simulated_count, processed_count>>
    /\ batch_pc' = "await"
    /\ UNCHANGED <<argv, pending_jobs, index, last_error, failed_count,
                   retry_attempt_count, outside_batch>>

\* The operation of job j resolves: run_with_retries returns and process_job
\* counts the file as processed
AttemptSucceeds(j) ==
    /\ job_state[j] = "running"
    /\ job_state' = [job_state EXCEPT ![j] = "processed"]
    /\ processed_count' = processed_count + 1
    /\ UNCHANGED <<argv, pending_jobs, batch_pc, index, attempt, last_error,
                   failed_count, total_attempt_count, retry_attempt_count,
                   simulated_count, outside_batch>>

\* The operation of job j rejects with an error: the catch of run_with_retries
\* rethrows it, or the loop makes the next attempt, or the loop ends and
\* last_error is thrown; process_job counts a thrown error as a failure
AttemptFails(j) ==
    /\ job_state[j] = "running"
    /\ \E message \in ErrorMessages :
          /\ last_error' = [last_error EXCEPT ![j] = message]
          /\ IF should_retry_error(message) /\ loop_continues(attempt[j], max_retry_count)
             THEN /\ attempt' = [attempt EXCEPT ![j] = attempt[j] + 1]
                  /\ total_attempt_count' = total_attempt_count + 1
                  /\ retry_attempt_count' = retry_attempt_count + 1
                  /\ UNCHANGED <<job_state, failed_count>>
             ELSE /\ job_state' = [job_state EXCEPT ![j] = "failed"]
                  /\ failed_count' = failed_count + 1
                  /\ UNCHANGED <<attempt, total_attempt_count, retry_attempt_count>>
    /\ UNCHANGED <<argv, pending_jobs, batch_pc, index, processed_count,
                   simulated_count, outside_batch>>

\* await Promise.all(...) resumes: index += batch_size, and the loop goes on
\* or the summary is printed
BatchSettles ==
    /\ batch_pc = "await"
    /\ batch_settled(index, batch_size, pending_jobs)
    /\ index' = index + batch_size
    /\ batch_pc' = IF index' < pending_jobs THEN "loop" ELSE "done"
    /\ UNCHANGED <<argv, pending_jobs, job_state, attempt, last_error,
                   processed_count, failed_count, total_attempt_count,
                   retry_attempt_count, simulated_count, outside_batch>>

BatchNext ==
    \/ StartBatch
    \/ \E j \in 1..pending_jobs : AttemptSucceeds(j)
    \/ \E j \in 1..pending_jobs : AttemptFails(j)
    \/ BatchSettles

BatchSpec == BatchInit /\ [][BatchNext]_vars

JobsIn(state) == {j \in 1..pending_jobs : job_state[j] = state}

\* C19: the AI operation is invoked at most max_retry_count times for each
\* pending file; after a success or an error that is not retryable no further
\* attempt is made for the file; and when the run ends every pending file has
\* been counted exactly once, as processed or as failed.
C19_RetriesBoundAttempts ==
    [][ /\ \A j \in 1..pending_jobs :
              /\ attempt[j] <= max_retry_count
              /\ attempt'[j] <= max_retry_count
              /\ Settled(j) => (attempt'[j] = attempt[j] /\ job_state'[j] = job_state[j])
              /\ attempt'[j] # attempt[j] =>
                    /\ attempt'[j] = attempt[j] + 1
                    /\ attempt[j] > 0 => should_retry_error(last_error'[j])
        /\ processed_count' = Cardinality({j \in 1..pending_jobs : job_state'[j] = "processed"})
        /\ failed_count' = Cardinality({j \in 1..pending_jobs : job_state'[j] = "failed"})
        /\ total_attempt_count' = SumSeq(attempt')
        /\ batch_pc' = "done" =>
              /\ \A j \in 1..pending_jobs : job_state'[j] \in {"processed", "failed"}
              /\ processed_count' + failed_count' = pending_jobs
      ]_vars

\* A run has ended in which one file used up every attempt and another
\* stopped at its first attempt on an error that is not retryable
C19_Witness ==
    /\ batch_pc = "done"
    /\ max_retry_count >= 2
    /\ \E j \in JobsIn("failed") : attempt[j] = max_retry_count
    /\ \E j \in JobsIn("failed") : attempt[j] = 1 /\ ~should_retry_error(last_error[j])
    /\ JobsIn("processed") # {}
    /\ processed_count + failed_count = pending_jobs

\* The batch a job belongs to, counted from 0
BatchOf(j) == (j - 1) \div batch_size

\* C20: at any moment at most batch_size files are being processed, and a job
\* of a later batch has started only if every job of the batches before it
\* has settled.
C20_BatchBoundsConcurrency ==
    /\ Cardinality(JobsIn("running")) <= batch_size
    /\ \A i, j \in 1..pending_jobs :
          (BatchOf(i) < BatchOf(j) /\ job_state[j] # "pending") => Settled(i)

\* A second batch is running after a first batch of two has settled
C20_Witness ==
    /\ batch_size = 2
    /\ pending_jobs >= 3
    /\ job_state[3] = "running"
    /\ Settled(1)
    /\ Settled(2)

-----------------------------------------------------------------------------
\* tree/leaf_extract_cli.js: the runs of the CLI over the files of one
\* directory.  A file name is the sequence of its pieces: the characters
\* ".", "\", "d", "a", "1", "2" and the words "leaves" and "json".

\* Bound of the model: the most runs of the CLI over the directory
MaxRuns == 2

IsChar(piece) == piece \in {".", "\\", "d", "a", "1", "2"}

IsDigit(piece) == piece \in {"1", "2"}

\* a.json ; a.leaves.1.json, written by an earlier run ; and a name holding
\* backslashes: \.leaves\.\d.json
SourceName == <<"a", ".", "json">>
EarlierOutputName == <<"a", ".", "leaves", ".", "1", ".", "json">>
BackslashName == <<"\\", ".", "leaves", "\\", ".", "\\", "d", ".", "json">>

InitialNames == {SourceName, EarlierOutputName, BackslashName}

\* --extension as parsed: with or without its dot
OutputExtensions == {<<".", "json">>, <<"json">>}

CliOptionSets ==
    [ refresh_mode : BOOLEAN, force : BOOLEAN, dry_run : BOOLEAN,
      level : {"1", "2"}, output_extension : OutputExtensions ]

\* parse_cli_arguments: force_overwrite: Boolean(argv.force || argv.refresh)
parse_cli_arguments(given) ==
    [ refresh_mode |-> given.refresh_mode,
      force_overwrite |-> given.force \/ given.refresh_mode,
      dry_run |-> given.dry_run,
      level |-> given.level,
      output_extension |-> given.output_extension ]

safe_extension(output_extension) ==
    IF output_extension # <<>> /\ Head(output_extension) = "."
    THEN output_extension
    ELSE <<".">> \o output_extension

\* safe_extension.replace(/[.*+?^${}()|[\\]\\\\]/g, "\\\\$&"): the pattern
\* asks for one character of the class followed by two backslashes and "]",
\* which no extension of the model holds, so nothing is replaced
escaped_extension(output_extension) == safe_extension(output_extension)

\* new RegExp(`\\\\.leaves\\\\.\\\\d+${escaped_extension}$`).test(name): the
\* pattern text is \\.leaves\\.\\d+.json$ : a backslash, any character,
\* "leaves", a backslash, any character, a backslash, one or more "d", then
\* the extension, whose "." stands for any character, at the end of the name
output_regex_test(name, output_extension) ==
    LET ext == escaped_extension(output_extension)
    IN \E i \in 1..Len(name), k \in 1..Len(name) :
          /\ i + 5 + k + Len(ext) = Len(name)
          /\ name[i] = "\\"
          /\ IsChar(name[i + 1])
          /\ name[i + 2] = "leaves"
          /\ name[i + 3] = "\\"
          /\ IsChar(name[i + 4])
          /\ name[i + 5] = "\\"
          /\ \A j \in 1..k : name[i + 5 + j] = "d"
          /\ \A e \in 1..Len(ext) :
                IF ext[e] = "." THEN IsChar(name[i + 5 + k + e])
                ELSE name[i + 5 + k + e] = ext[e]

is_output_file(input_path, output_extension, refresh_mode) ==
    IF refresh_mode THEN FALSE ELSE output_regex_test(input_path, output_extension)

build_output_extension_with_level(output_extension, level) ==
    <<".", "leaves", ".", level>> \o safe_extension(output_extension)

\* output_directory is "": the output is written next to the input
build_output_path_with_level(input_path, output_extension, level) ==
    parsed_name(input_path) \o build_output_extension_with_level(output_extension, level)

CliInit ==
    /\ files \in (SUBSET InitialNames) \ {{}}
    /\ cli_options = NoCliOptions
    /\ input_files = {}
    /\ cli_pc = "idle"
    /\ runs = 0
    /\ cli_counts = NoCliCounts
    /\ processed_inputs = {}
    /\ LeafExtractIdle
    /\ PathIdle
    /\ CodexIdle
    /\ BatchIdle

outside_cli == <<leaf_extract_vars, path_vars, codex_vars, batch_vars>>

\* run_leaf_extract_cli up to the loop of convert_files: the patterns match
\* every file of the directory
StartRun ==
    /\ cli_pc = "idle"
    /\ runs < MaxRuns
    /\ \E given \in CliOptionSets : cli_options' = parse_cli_arguments(given)
    /\ input_files' = files
    /\ cli_counts' = NoCliCounts
    /\ cli_pc' = "running"
    /\ runs' = runs + 1
    /\ UNCHANGED <<files, processed_inputs, outside_cli>>

\* One turn of the loop of convert_files, for one of the expanded paths
ConvertFile ==
    /\ cli_pc = "running"
    /\ \E input_path \in input_files :
          LET output_path ==
                  build_output_path_with_level(input_path, cli_options.output_extension,
                                               cli_options.level)
          IN /\ input_files' = input_files \ {input_path}
             /\ IF is_output_file(input_path, cli_options.output_extension,
                                  cli_options.refresh_mode)
                THEN /\ cli_counts' = [cli_counts EXCEPT !.skipped = @ + 1]
                     /\ UNCHANGED <<files, processed_inputs>>
                ELSE IF ~cli_options.force_overwrite /\ output_path \in files
                THEN /\ cli_counts' = [cli_counts EXCEPT !.skipped = @ + 1]
                     /\ UNCHANGED <<files, processed_inputs>>
                ELSE /\ processed_inputs' = processed_inputs \cup
                            { [ input_path |-> input_path,
                                output_extension |-> cli_options.output_extension,
                                refresh_mode |-> cli_options.refresh_mode ] }
                     /\ \E parses \in BOOLEAN :
                           IF ~parses
                           THEN /\ cli_counts' = [cli_counts EXCEPT !.failed = @ + 1]
                                /\ UNCHANGED files
                           ELSE /\ cli_counts' = [cli_counts EXCEPT !.processed = @ + 1]
                                /\ files' = IF cli_options.dry_run THEN files
                                            ELSE files \cup {output_path}
    /\ UNCHANGED <<cli_options, cli_pc, runs, outside_cli>>

\* The loop has ended: the summary is printed and the process exits
EndRun ==
    /\ cli_pc = "running"
    /\ input_files = {}
    /\ cli_pc' = "idle"
    /\ UNCHANGED <<files, cli_options, input_files, runs, cli_counts,
                   processed_inputs, outside_cli>>

CliNext ==
    \/ StartRun
    \/ ConvertFile
    \/ EndRun

CliSpec == CliInit /\ [][CliNext]_vars

\* The name of a generated output: it ends with ".leaves.", digits and the
\* output extension
IsGeneratedOutput(name, output_extension) ==
    LET ext == safe_extension(output_extension)
    IN \E i \in 1..Len(name), k \in 1..Len(name) :
          /\ i + 2 + k + Len(ext) = Len(name)
          /\ SubSeq(name, i, i + 2) = <<".", "leaves", ".">>
          /\ \A j \in 1..k : IsDigit(name[i + 2 + j])
          /\ SubSeq(name, i + 3 + k, Len(name)) = ext

\* C21: without --refresh, an input path that is a generated output (a name
\* ending .leaves.<digits><ext>) is skipped: no run reads it, so a run over a
\* glob that matches earlier outputs writes nothing for them.
C21_GeneratedOutputsSkipped ==
    \A p \in processed_inputs :
        p.refresh_mode \/ ~IsGeneratedOutput(p.input_path, p.output_extension)

-----------------------------------------------------------------------------
\* Calls on inputs whose own objects carry the key of the root flag

\* An object of the input with the field __leaf_extract_root
Flagged(s, flag) == Obj(<<"value", ROOT_FLAG>>, <<Prim(s), Prim(flag)>>)

FlaggedValues(k) ==
    { Flagged("x", "true"),
      Flagged("x", "false"),
      Obj(<<"value", ROOT_FLAG, k>>, <<Prim("x"), Prim("true"), Arr(<<Prim("a")>>)>>),
      Obj(<<"value", ROOT_FLAG, k>>,
          <<Prim("x"), Prim("true"), Arr(<<Flagged("y", "true")>>)>>) }

ReservedKeyInputs ==
    UNION { UNION { EdgeContexts(e, k) : e \in FlaggedValues(k) } : k \in ChildKeys }

ReservedKeyInit ==
    /\ variant \in Variants
    /\ input_data \in ReservedKeyInputs
    /\ options = EmptyOptions
    /\ callback = NoCallback
    /\ op = "none"
    /\ result = NoResult
    /\ PathIdle
    /\ CodexIdle
    /\ BatchIdle
    /\ CliIdle

ReservedKeySpec == ReservedKeyInit /\ [][Next]_vars

CallLeafSet == {CallLeaves[i] : i \in 1..Len(CallLeaves)}

\* C22: a node other than the sentinel is classified as a leaf iff it has no
\* children after normalization, for any input data whatsoever; the sentinel
\* is never classified as a leaf, not even over an empty forest, and is never
\* selected for the output.
C22_LeafIffChildless ==
    Extracted =>
        /\ CallLeafSet = ChildlessPositions(CallRoot)
        /\ result.meta.leaf_count = Cardinality(ChildlessPositions(CallRoot))
        /\ <<>> \notin CallLeafSet
        /\ <<>> \notin CallSelected

\* C23: for every input other than [] and undefined, extract_leaf_levels
\* reports meta.leaf_count >= 1 and meta.selected_count >= 1.
C23_NonEmptyInputHasLeaf ==
    Extracted /\ input_data \notin {Arr(<<>>), Undefined} =>
        /\ result.meta.leaf_count >= 1
        /\ result.meta.selected_count >= 1

\* The values of the input reached through top-level items and array-valued
\* children fields only, each with the position it has in the tree
RECURSIVE RawNodesBelow(_, _, _)
RawNodesBelow(raws, p, ck) ==
    UNION { {<<Append(p, i), raws[i]>>} \cup
            (IF IsPlainObject(raws[i]) /\ IsArray(Get(raws[i], ck))
             THEN RawNodesBelow(Get(raws[i], ck).items, Append(p, i), ck)
             ELSE {})
            : i \in 1..Len(raws) }

CallRawNodes ==
    RawNodesBelow(IF IsArray(input_data) THEN input_data.items
                  ELSE IF input_data = Undefined THEN <<>>
                  ELSE <<input_data>>,
                  <<>>, CallOptions.children_key)

\* C24: normalization gives a structured object no children when its
\* children-key field is absent or is not an array (null, a string, a number,
\* a single object): the node is a leaf; an array-valued field gives one
\* child for each of its items.
C24_OnlyArraysGiveChildren ==
    Extracted =>
        \A rn \in CallRawNodes :
            IsPlainObject(rn[2]) =>
                IF IsArray(Get(rn[2], CallOptions.children_key))
                THEN Len(NodeAt(CallRoot, rn[1]).children) =
                         Len(Get(rn[2], CallOptions.children_key).items)
                ELSE /\ NodeAt(CallRoot, rn[1]).children = <<>>
                     /\ rn[1] \in CallLeafSet

-----------------------------------------------------------------------------
\* The selected node nearest above p, or the sentinel's position when no
\* node above p is selected
NearestSelectedAncestor(p, selected_nodes) ==
    LET above == {q \in selected_nodes : IsPrefix(q, p) /\ q # p}
    IN IF above = {} THEN <<>>
       ELSE CHOOSE q \in above : \A r \in above : Len(r) <= Len(q)

\* The positions of a set from left to right
RECURSIVE LeftToRight(_)
LeftToRight(ps) ==
    IF ps = {} THEN <<>>
    ELSE LET first == CHOOSE p \in ps : \A q \in ps \ {p} : PreBefore(p, q)
         IN <<first>> \o LeftToRight(ps \ {first})

\* The outputs that hang below the selected node at `anchor` (below the top
\* level for the sentinel's position): one for each selected node whose
\* nearest selected ancestor it is, from left to right
RECURSIVE AttachedOutputs(_, _, _, _)
AttachedOutputs(root_node, anchor, selected_nodes, nopts) ==
    LET attached == LeftToRight({p \in selected_nodes :
                                   /\ IsPrefix(anchor, p) /\ p # anchor
                                   /\ NearestSelectedAncestor(p, selected_nodes) = anchor})
    IN [i \in 1..Len(attached) |->
          build_output_node(NodeAt(root_node, attached[i]),
                            AttachedOutputs(root_node, attached[i], selected_nodes, nopts),
                            nopts)]

\* C25: a node that is not selected is left out of the output and stands for
\* the outputs of its selected descendants, which hang in their original
\* left-to-right order below its nearest selected ancestor, or at the top
\* level of the output forest when no ancestor is selected.
C25_TransparentPruning ==
    Extracted =>
        LET built == CallBuilt
            selected_nodes == collect_selected_nodes(built.root_node,
                                                     get_leaf_nodes(built.root_node), CallLevel)
            output_forest == output_forest_of(built.root_node, selected_nodes,
                                              built.normalized_options)
        IN /\ output_forest = AttachedOutputs(built.root_node, <<>>, selected_nodes,
                                              built.normalized_options)
           /\ IsArray(input_data) => result.output_data = Arr(output_forest)
           /\ (~IsArray(input_data) /\ output_forest # <<>>) =>
                 result.output_data = output_forest[1]

\* A node that is not selected lies between a selected node and its nearest
\* selected ancestor, and another below the top level has no selected ancestor
C25_Witness ==
    /\ Extracted
    /\ IsArray(input_data)
    /\ \E p \in CallSelected :
          /\ NearestSelectedAncestor(p, CallSelected) # <<>>
          /\ Len(NearestSelectedAncestor(p, CallSelected)) < Len(p) - 1
    /\ \E p \in CallSelected :
          /\ Len(p) > 1
          /\ NearestSelectedAncestor(p, CallSelected) = <<>>

-----------------------------------------------------------------------------
\* The nodes within level - 1 steps above a leaf, each told by its position
WithinLevelOfLeaf(root_node, level) ==
    LET leaves == ChildlessPositions(root_node)
    IN {p \in AllPositions(root_node) :
           \E l \in leaves : IsPrefix(p, l) /\ Len(l) - Len(p) < level}

\* The leaves whose path holds the node at p within the level of the call
LeavesSelecting(p) ==
    {l \in ChildlessPositions(CallRoot) : IsPrefix(p, l) /\ Len(l) - Len(p) < CallLevel}

-----------------------------------------------------------------------------
\* Calls on inputs that hold several candidate keys, at one node or at
\* different depths

DetectionInputs ==
    { Obj(<<"value", "children", "r_children">>,
          <<Prim("n"), Arr(<<Prim("a")>>), Arr(<<Prim("b")>>)>>),
      Obj(<<"value", "items">>, <<Prim("n"), Arr(<<Prim("a")>>)>>),
      Obj(<<"value", "items", "nodes">>,
          <<Prim("n"), Arr(<<Prim("a")>>), Arr(<<Prim("b")>>)>>),
      Obj(<<"value", "children", "r_children">>,
          <<Prim("n"), Arr(<<Prim("a")>>), Prim("b")>>),
      Arr(<<Leaf("c"),
            Obj(<<"value", "items">>,
                <<Prim("n"), Arr(<<Branch("m", "r_children", <<Prim("a")>>)>>)>>)>>),
      Arr(<<Obj(<<"value", "data">>, <<Prim("n"), Branch("m", "r_children", <<Prim("a")>>)>>),
            Branch("k", "children", <<Prim("b")>>)>>),
      Arr(<<Arr(<<Branch("m", "nodes", <<Prim("a")>>)>>),
            Obj(<<"value", "data">>, <<Prim("n"), Branch("k", "items", <<Prim("b")>>)>>),
            Prim("c")>>),
      Arr(<<Leaf("c"), Prim("a")>>),
      Arr(<<>>),
      Undefined }

DetectionInit ==
    /\ variant \in Variants
    /\ input_data \in DetectionInputs
    /\ options = EmptyOptions
    /\ callback = NoCallback
    /\ op = "none"
    /\ result = NoResult
    /\ PathIdle
    /\ CodexIdle
    /\ BatchIdle
    /\ CliIdle

DetectionSpec == DetectionInit /\ [][Next]_vars

\* The candidate key of highest priority that holds an array at a value
HighestPriorityKey(value) ==
    IF ~IsPlainObject(value) THEN ""
    ELSE IF IsArray(Get(value, "r_children")) THEN "r_children"
    ELSE IF IsArray(Get(value, "children")) THEN "children"
    ELSE IF IsArray(Get(value, "nodes")) THEN "nodes"
    ELSE IF IsArray(Get(value, "items")) THEN "items"
    ELSE ""

\* What a visited value brings into the next round of a breadth-first visit
NextRound(value) ==
    IF IsArray(value) THEN value.items
    ELSE IF IsPlainObject(value)
    THEN Concat([i \in 1..Len(value.items) |->
                   IF IsArray(value.items[i])
                   THEN SelectSeq(value.items[i].items, IsObjectLike)
                   ELSE IF IsObjectLike(value.items[i]) THEN <<value.items[i]>>
                   ELSE <<>>])
    ELSE <<>>

\* The key of the first value, round by round and left to right within a
\* round, that holds a candidate key with an array ("" when there is none)
RECURSIVE BreadthFirstKey(_)
BreadthFirstKey(round) ==
    IF round = <<>> THEN ""
    ELSE LET hits == SelectSeq(round, LAMBDA value : HighestPriorityKey(value) # "")
         IN IF hits # <<>> THEN HighestPriorityKey(hits[1])
            ELSE BreadthFirstKey(Concat([i \in 1..Len(round) |-> NextRound(round[i])]))

ExpectedChildrenKey ==
    IF IsNonBlankString(options.children_key) THEN Trim(options.children_key.val)
    ELSE LET found == BreadthFirstKey(IF IsArray(input_data) THEN input_data.items
                                      ELSE IF input_data = Undefined THEN <<>>
                                      ELSE <<input_data>>)
         IN IF found # "" THEN found ELSE DEFAULT_CHILDREN_KEY

\* C27: without an explicit children_key the children key of a call is the
\* highest-priority candidate (r_children, children, nodes, items) holding an
\* array at the first node of a breadth-first visit of the input that holds
\* one, "children" when no node holds one; an explicit children_key is used
\* as given.
C27_ChildrenKeyResolution ==
    Extracted => CallOptions.children_key = ExpectedChildrenKey

\* The same resolution, for the file that holds detect_children_key
ResolutionWithDetection ==
    Extracted /\ variant = WithDetection => CallOptions.children_key = ExpectedChildrenKey

-----------------------------------------------------------------------------
\* The level a call is to use: 1 when options.level is missing, not finite or
\* below 1, the whole part of the level otherwise
ExpectedLevel ==
    IF ~options.level.given \/ ~options.level.finite \/ options.level.tenths < 10
    THEN 1
    ELSE CHOOSE n \in 1..(MaxLevel + 1) :
           10 * n <= options.level.tenths /\ options.level.tenths < 10 * (n + 1)

\* C28: extract_leaf_levels uses level 1 whenever options.level is missing,
\* not finite or below 1, and floor(level) otherwise; meta.level reports that
\* value, an integer >= 1, and the selection is computed with it.
C28_LevelCoercion ==
    Extracted =>
        /\ result.meta.level = ExpectedLevel
        /\ result.meta.level \in Nat /\ result.meta.level >= 1
        /\ result.meta.selected_count =
             Cardinality(WithinLevelOfLeaf(CallRoot, ExpectedLevel))

\* Calls whose level is not a whole number >= 1, with a tree deep enough for
\* the level to matter
C28_Witness ==
    /\ Extracted
    /\ options.level \in {NotFiniteLevel, LevelTenths(0 - 15), LevelTenths(0), LevelTenths(25)}
    /\ MaxDepth(CallRoot) >= 3
    /\ result.meta.level = (IF options.level = LevelTenths(25) THEN 2 ELSE 1)

-----------------------------------------------------------------------------
PrimitivePositions(root_node) ==
    {p \in AllPositions(root_node) : NodeAt(root_node, p).is_primitive}

\* C29: every primitive node of the internal tree has zero children, so
\* extract_leaf_levels and filter_tree emit a primitive node as its bare raw
\* value: build_output_node never wraps a primitive under the value key with a
\* children list in those two operations.
C29_PrimitivesEmittedBare ==
    (Extracted \/ Filtered) =>
        LET built == CallBuilt
            root_node == built.root_node
            nopts == built.normalized_options
            selected_nodes == collect_selected_nodes(root_node, get_leaf_nodes(root_node),
                                                     CallLevel)
        IN \A p \in PrimitivePositions(root_node) :
              LET node == NodeAt(root_node, p)
              IN /\ node.children = <<>>
                 /\ (Extracted /\ p \in selected_nodes) =>
                       collect_output_nodes(root_node, p, selected_nodes, nopts)
                         = <<node.raw_value>>
                 /\ Filtered =>
                       filter_node(root_node, p, nopts, callback).out
                         = IF apply_predicate(callback, node.raw_value)
                           THEN <<node.raw_value>> ELSE <<>>

\* filter_tree has kept a primitive node that lies below a kept branch and is
\* an array nested in the input
C29_Witness ==
    /\ Filtered
    /\ callback = Fn("always")
    /\ \E p \in PrimitivePositions(CallRoot) :
          Len(p) >= 2 /\ IsArray(NodeAt(CallRoot, p).raw_value)

-----------------------------------------------------------------------------
\* options.children_key names a key
ExplicitKey == IsNonBlankString(options.children_key)

LevelOneIdempotentWithoutKey ==
    (Extracted /\ CallLevel = 1) => FedBack.output_data = result.output_data

====
